---- MODULE Spec2Model ----
(***************************************************************************)
(* Model of crank_nicolson.py: a Crank-Nicolson march for the heat        *)
(* equation in a thin rod.  The script is a straight-line program: each   *)
(* statement that touches the numerical state is one action, and pc names  *)
(* the source line about to be executed.  Plotting statements do not       *)
(* touch the numerical state and are left out.                             *)
(*                                                                         *)
(* Real numbers are exact rationals <<num, den>> in lowest terms with      *)
(* den > 0.  Arrays are 0-indexed functions, as in the source.             *)
(***************************************************************************)
EXTENDS Integers, FiniteSets, Sequences, TLC

VARIABLES
    n, m, K, c, xmin, xmax, tmin, tmax,   \* configuration (lines 45-91)
    f, a, b,                              \* samples f(x_i), a(t_j), b(t_j)
    u,                                    \* solution field u[i][j]
    h, k, h2,                             \* step sizes
    A, D, C,                              \* tridiagonal system
    B,                                    \* right-hand side of the current step
    j, it,                                \* loop variable and xrange position
    pc, err,                              \* next source line; exception raised
    factorCalls, solveCalls,              \* history: calls made to the solver
    built,                                \* history: number of D/A/C assignments
    factored,                             \* history: A, D, C as factor left them
    assigned                              \* history: writes per cell since line 71

cfg == <<n, m, K, c, xmin, xmax, tmin, tmax, f, a, b>>
mesh == <<h, k, h2>>
sys == <<A, D, C>>
hist == <<factorCalls, solveCalls, built, factored, assigned>>
vars == <<cfg, u, mesh, sys, B, j, it, pc, err, hist>>

\* ------------------------------------------------------------ bounds
MaxN == 4
MaxM == 2
\* Exact arithmetic is done in TLC's 32-bit integers: a run is modelled when the
\* growth of numerators and denominators over its steps stays below 2^RangeBits.
RangeBits == 20

\* ------------------------------------------------------------ arithmetic
\* Operators on integers, rationals and arrays bind their operands
\* (x \in {x0}) so that each operand is evaluated once, however deeply the
\* expressions nest.
Abs(i) == IF i < 0 THEN -i ELSE i

RECURSIVE GCD(_, _)
GCD(p0, q0) ==
    CHOOSE z \in {IF q = 0 THEN p ELSE GCD(q, p % q) : p \in {p0}, q \in {q0}} : TRUE

Norm(p0, q0) ==
    CHOOSE z \in
        {<<((IF q < 0 THEN -1 ELSE 1) * p) \div g, ((IF q < 0 THEN -1 ELSE 1) * q) \div g>>
         : p \in {p0}, q \in {q0}, g \in {GCD(Abs(p0), Abs(q0))}} : TRUE

Rat(p, q) == Norm(p, q)
RInt(i) == <<i, 1>>
Zero == RInt(0)
One == RInt(1)

RNeg(r0) == CHOOSE z \in {<<-r[1], r[2]>> : r \in {r0}} : TRUE
RAdd(r0, s0) ==
    CHOOSE z \in
        {Norm(r[1] * (s[2] \div g) + s[1] * (r[2] \div g), (r[2] \div g) * s[2])
         : r \in {r0}, s \in {s0}, g \in {GCD(r0[2], s0[2])}} : TRUE
RSub(r, s) == RAdd(r, RNeg(s))
RMul(r0, s0) ==
    CHOOSE z \in
        {Norm((r[1] \div g1) * (s[1] \div g2), (r[2] \div g2) * (s[2] \div g1))
         : r \in {r0}, s \in {s0},
           g1 \in {GCD(Abs(r0[1]), s0[2])}, g2 \in {GCD(Abs(s0[1]), r0[2])}} : TRUE
RInv(s0) == CHOOSE z \in {Norm(s[2], s[1]) : s \in {s0}} : TRUE
RDiv(r, s) == RMul(r, RInv(s))
RLess(r0, s0) == \E r \in {r0}, s \in {s0} : r[1] * s[2] < s[1] * r[2]
RAbs(r0) == CHOOSE z \in {<<Abs(r[1]), r[2]>> : r \in {r0}} : TRUE

\* ------------------------------------------------------------ arrays
ALen(v) == Cardinality(DOMAIN v)
ones(len) == [i \in 0..(len - 1) |-> One]
zeros(len) == [i \in 0..(len - 1) |-> Zero]
VAdd(v0, w0) ==
    CHOOSE z \in {[i \in DOMAIN v |-> RAdd(v[i], w[i])] : v \in {v0}, w \in {w0}} : TRUE
VSub(v0, w0) ==
    CHOOSE z \in {[i \in DOMAIN v |-> RSub(v[i], w[i])] : v \in {v0}, w \in {w0}} : TRUE
VScale(r0, v0) ==
    CHOOSE z \in {[i \in DOMAIN v |-> RMul(r, v[i])] : r \in {r0}, v \in {v0}} : TRUE

\* Python's index normalisation for a slice bound.
Clip(len, i) ==
    IF i < 0 THEN (IF len + i < 0 THEN 0 ELSE len + i)
    ELSE (IF i > len THEN len ELSE i)
PySlice(v0, lo, hi) ==
    CHOOSE z \in
        {LET l == Clip(ALen(v), lo)
             r == Clip(ALen(v), hi)
         IN  [i \in 0..(r - l - 1) |-> v[l + i]]
         : v \in {v0}} : TRUE

Column(uu, jj) == [i \in DOMAIN uu |-> uu[i][jj]]
\* the initial condition written one column too far
SetColumnNext(uu, jj, v) == [i \in DOMAIN uu |-> [uu[i] EXCEPT ![jj + 1] = v[i]]]
SetColumn(uu, jj, v) == [i \in DOMAIN uu |-> [uu[i] EXCEPT ![jj] = v[i]]]
\* a boundary row written from the second time level on
SetRowAfterFirst(uu, i, v) ==
    [uu EXCEPT ![i] = [jj \in DOMAIN v |-> IF jj = 0 THEN uu[i][0] ELSE v[jj]]]
SetRow(uu, i, v) == [uu EXCEPT ![i] = v]
\* u[0:-2, jj] = v: the slice taken one row too low
SetInteriorLow(uu, jj, v0) ==
    CHOOSE z \in
        {LET len == ALen(uu)
             l == Clip(len, 0)
             r == Clip(len, -2)
         IN  [i \in DOMAIN uu |->
                 IF l <= i /\ i < r THEN [uu[i] EXCEPT ![jj] = v[i - l]] ELSE uu[i]]
         : v \in {v0}} : TRUE
\* u[1:-1, jj] = v
SetInterior(uu, jj, v0) ==
    CHOOSE z \in
        {LET len == ALen(uu)
             l == Clip(len, 1)
             r == Clip(len, -1)
         IN  [i \in DOMAIN uu |->
                 IF l <= i /\ i < r THEN [uu[i] EXCEPT ![jj] = v[i - l]] ELSE uu[i]]
         : v \in {v0}} : TRUE

\* ------------------------------------------------------------ tridiagonal module
\* factor(A, D, C): forward elimination in place on D; A and C are left alone.
\* The result is the pivot sequence, or the error raised.
RECURSIVE Eliminate(_, _, _, _)
Eliminate(AA, DD0, CC, i) ==
    CHOOSE z \in
        {IF i >= ALen(DD) THEN DD
         ELSE Eliminate(AA,
                        [DD EXCEPT ![i] =
                            RSub(DD[i], RMul(RDiv(AA[i - 1], DD[i - 1]), CC[i - 1]))],
                        CC, i + 1)
         : DD \in {DD0}} : TRUE

\* The first index whose pivot is zero during elimination, or the length if none.
RECURSIVE FirstZeroPivot(_, _, _, _)
FirstZeroPivot(AA, DD0, CC, i) ==
    CHOOSE z \in
        {IF i >= ALen(DD) THEN i
         ELSE IF DD[i][1] = 0 THEN i
         ELSE IF i + 1 >= ALen(DD) THEN i + 1
         ELSE FirstZeroPivot(AA,
                             [DD EXCEPT ![i + 1] =
                                 RSub(DD[i + 1], RMul(RDiv(AA[i], DD[i]), CC[i]))],
                             CC, i + 1)
         : DD \in {DD0}} : TRUE

factor(AA, DD, CC) ==
    IF ALen(DD) <= 0 THEN [error |-> "InvalidConfiguration", D |-> DD]
    ELSE IF ALen(AA) # ALen(DD) - 1 \/ ALen(CC) # ALen(DD) - 1
         THEN [error |-> "DimensionMismatch", D |-> DD]
    ELSE IF FirstZeroPivot(AA, DD, CC, 0) < ALen(DD)
         THEN [error |-> "SingularMatrix", D |-> DD]
    ELSE [error |-> "none", D |-> Eliminate(AA, DD, CC, 1)]

\* Forward substitution with the elimination factors A[i-1]/D[i-1].
RECURSIVE ForwardSub(_, _, _, _)
ForwardSub(AA, DD, y0, i) ==
    CHOOSE z \in
        {IF i >= ALen(y) THEN y
         ELSE ForwardSub(AA, DD,
                         [y EXCEPT ![i] =
                             RSub(y[i], RMul(RDiv(AA[i - 1], DD[i - 1]), y[i - 1]))],
                         i + 1)
         : y \in {y0}} : TRUE

\* Back substitution on the factored pivots, from the last entry up.
RECURSIVE BackSub(_, _, _, _)
BackSub(DD, CC, x0, i) ==
    CHOOSE z \in
        {IF i < 0 THEN x
         ELSE BackSub(DD, CC,
                      [x EXCEPT ![i] =
                          IF i = ALen(x) - 1 THEN RDiv(x[i], DD[i])
                          ELSE RDiv(RSub(x[i], RMul(CC[i], x[i + 1])), DD[i])],
                      i - 1)
         : x \in {x0}} : TRUE

\* solve(A, D, C, B): forward substitution, then back substitution on the
\* factored pivots.  Does not change A, D, C.
solve(AA, DD, CC, BB) ==
    IF ALen(BB) # ALen(DD) THEN [error |-> "DimensionMismatch", X |-> <<>>]
    ELSE [error |-> "none",
          X |-> BackSub(DD, CC, ForwardSub(AA, DD, BB, 1), ALen(DD) - 1)]

\* ------------------------------------------------------------ inputs
NSet == 0..MaxN
MSet == 0..MaxM
KSet == {One, Rat(1, 4)}
CSet == {Rat(-1, 2), Zero, Rat(1, 2), Rat(3, 4), One}
XExtents == {<<0, 1>>, <<0, 2>>, <<1, 1>>}
TExtents == {<<0, 1>>, <<0, 2>>, <<0, 0>>}

Constant(len, r) == [i \in 0..(len - 1) |-> r]
Ramp(len) == [i \in 0..(len - 1) |-> RInt(i)]
Spike(len) == [i \in 0..(len - 1) |-> IF i = 1 THEN One ELSE Zero]
IsConstant(v) == \A p, q \in DOMAIN v : v[p] = v[q]

\* Samples of the initial condition on x = linspace(xmin, xmax, n+1).
FSamples(nn) == {Constant(nn + 1, Zero), Constant(nn + 1, One), Ramp(nn + 1), Spike(nn + 1)}
\* Samples of a boundary condition on t = linspace(tmin, tmax, m+1).
BCSamples(mm) == {Constant(mm + 1, Zero), Constant(mm + 1, One), Ramp(mm + 1)}

IsZero(v) == \A p \in DOMAIN v : v[p] = Zero

\* base^e, or cap + 1 when that is above cap
RECURSIVE PowCap(_, _, _)
PowCap(base, e, cap) ==
    IF e <= 0 THEN 1
    ELSE LET r == PowCap(base, e - 1, cap)
         IN  IF base = 0 THEN 0
             ELSE IF r > cap \div base THEN cap + 1 ELSE r * base

LCM(p, q) == (p \div GCD(p, q)) * q

\* An estimate of the size the numbers of a run reach: with H, P, E the
\* integers h2*L, k*K*c*L and k*K*(1-c)*L for the common denominator L, a
\* solve multiplies sizes by about (|H| + 2|P|)^(n-1) and the assembly of the
\* right-hand side by |H| + 4|E|.  Runs that raise before the march, and runs
\* on zero data (only the pivots are computed), take a single such factor.
InRange(nn, mm, KK, cc, dx, dt, zeroData) ==
    IF nn < 2 \/ mm < 1 THEN TRUE
    ELSE
        LET hh2 == RMul(Rat(dx, nn), Rat(dx, nn))
            kk == Rat(dt, mm)
            pp == RMul(RMul(kk, KK), cc)
            ee == RMul(RMul(kk, KK), RSub(One, cc))
            L == LCM(LCM(hh2[2], pp[2]), ee[2])
            H == Abs(hh2[1]) * (L \div hh2[2])
            P == Abs(pp[1]) * (L \div pp[2])
            E == Abs(ee[1]) * (L \div ee[2])
            cap == 2 ^ RangeBits
            perSolve == PowCap(H + 2 * P, nn - 1, cap)
            perStep == IF perSolve > cap \div (H + 4 * E + 1) THEN cap + 1
                       ELSE perSolve * (H + 4 * E + 1)
        IN  PowCap(perStep, IF zeroData THEN 1 ELSE mm, cap) <= cap

Init ==
    /\ n \in NSet
    /\ m \in MSet
    /\ K \in KSet
    /\ c \in CSet
    /\ \E e \in XExtents : xmin = e[1] /\ xmax = e[2]
    /\ \E e \in TExtents : tmin = e[1] /\ tmax = e[2]
    /\ f \in FSamples(n)
    /\ a \in BCSamples(m)
    /\ b \in BCSamples(m)
    \* equal sample points give equal samples
    /\ (xmin = xmax => IsConstant(f))
    /\ (tmin = tmax => IsConstant(a) /\ IsConstant(b))
    /\ InRange(n, m, K, c, xmax - xmin, tmax - tmin, IsZero(f) /\ IsZero(a) /\ IsZero(b))
    /\ u = <<>>
    /\ h = Zero /\ k = Zero /\ h2 = Zero
    /\ A = <<>> /\ D = <<>> /\ C = <<>> /\ B = <<>>
    /\ j = -1 /\ it = 0
    /\ pc = "L53"
    /\ err = "none"
    /\ factorCalls = 0 /\ solveCalls = 0 /\ built = 0
    /\ factored = <<>>
    /\ assigned = <<>>

Raise(e) == pc' = "error" /\ err' = e
Goto(l) == pc' = l /\ err' = err

\* cells written by an assignment to rows rs and columns cs
Count(cnt, rs, cs) ==
    [i \in DOMAIN cnt |-> [jj \in DOMAIN cnt[i] |->
        IF i \in rs /\ jj \in cs THEN cnt[i][jj] + 1 ELSE cnt[i][jj]]]

\* line 53: u = zeros( ( n+1, m+1 ), float )
AllocU ==
    /\ pc = "L53"
    /\ u' = [i \in 0..n |-> [jj \in 0..m |-> Zero]]
    /\ assigned' = [i \in 0..n |-> [jj \in 0..m |-> 0]]
    /\ Goto("L71")
    /\ UNCHANGED <<cfg, mesh, sys, B, j, it, factorCalls, solveCalls, built, factored>>

\* line 71: u[:,0] = f(x)
SetInitial ==
    /\ pc = "L71"
    /\ u' = SetColumn(u, 0, f)
    /\ assigned' = Count(assigned, 0..n, {0})
    /\ Goto("L75")
    /\ UNCHANGED <<cfg, mesh, sys, B, j, it, factorCalls, solveCalls, built, factored>>

\* line 75: u[0,:] = a(t)
SetLeft ==
    /\ pc = "L75"
    /\ u' = SetRow(u, 0, a)
    /\ assigned' = Count(assigned, {0}, 0..m)
    /\ Goto("L76")
    /\ UNCHANGED <<cfg, mesh, sys, B, j, it, factorCalls, solveCalls, built, factored>>

\* line 76: u[n,:] = b(t)
SetRight ==
    /\ pc = "L76"
    /\ u' = SetRow(u, n, b)
    /\ assigned' = Count(assigned, {n}, 0..m)
    /\ Goto("L100")
    /\ UNCHANGED <<cfg, mesh, sys, B, j, it, factorCalls, solveCalls, built, factored>>

\* line 100: h = ( xmax - xmin ) / float( n )
ComputeH ==
    /\ pc = "L100"
    /\ IF n = 0
       THEN Raise("ZeroDivisionError") /\ h' = h
       ELSE Goto("L101") /\ h' = Rat(xmax - xmin, n)
    /\ UNCHANGED <<cfg, u, k, h2, sys, B, j, it, hist>>

\* line 101: k = ( tmax - tmin ) / float( m )
ComputeK ==
    /\ pc = "L101"
    /\ IF m = 0
       THEN Raise("ZeroDivisionError") /\ k' = k
       ELSE Goto("L102") /\ k' = Rat(tmax - tmin, m)
    /\ UNCHANGED <<cfg, u, h, h2, sys, B, j, it, hist>>

\* line 102: h2 = h * h
ComputeH2 ==
    /\ pc = "L102"
    /\ h2' = RMul(h, h)
    /\ Goto("L112")
    /\ UNCHANGED <<cfg, u, h, k, sys, B, j, it, hist>>

\* line 112: D = ( 2 * k * K * c + h2 ) * ones( n - 1, float )
\* the diagonal without the factor 2
DiagonalDSingle == VScale(RAdd(RMul(RMul(k, K), c), h2), ones(n - 1))
DiagonalD == VScale(RAdd(RMul(RMul(RMul(RInt(2), k), K), c), h2), ones(n - 1))
BuildD ==
    /\ pc = "L112"
    /\ IF n - 1 < 0
       THEN Raise("ValueError") /\ UNCHANGED <<D, built>>
       ELSE Goto("L113") /\ D' = DiagonalD /\ built' = built + 1
    /\ UNCHANGED <<cfg, u, mesh, A, C, B, j, it, factorCalls, solveCalls, factored, assigned>>

\* lines 113, 114: -k * K * c * ones( n-2, float )
OffDiagonal == VScale(RMul(RMul(RNeg(k), K), c), ones(n - 2))
BuildA ==
    /\ pc = "L113"
    /\ IF n - 2 < 0
       THEN Raise("ValueError") /\ UNCHANGED <<A, built>>
       ELSE Goto("L114") /\ A' = OffDiagonal /\ built' = built + 1
    /\ UNCHANGED <<cfg, u, mesh, D, C, B, j, it, factorCalls, solveCalls, factored, assigned>>

BuildC ==
    /\ pc = "L114"
    /\ IF n - 2 < 0
       THEN Raise("ValueError") /\ UNCHANGED <<C, built>>
       ELSE Goto("L116") /\ C' = OffDiagonal /\ built' = built + 1
    /\ UNCHANGED <<cfg, u, mesh, A, D, B, j, it, factorCalls, solveCalls, factored, assigned>>

\* the error of factor caught and the march entered all the same
CallFactorContinue ==
    /\ pc = "L116"
    /\ LET r == factor(A, D, C)
       IN  /\ D' = r.D
           /\ pc' = "L137" /\ err' = r.error
           /\ factored' = <<A, r.D, C>>
    /\ factorCalls' = factorCalls + 1
    /\ UNCHANGED <<cfg, u, mesh, A, C, B, j, it, solveCalls, built, assigned>>

\* line 116: tridiagonal.factor( A, D, C ); an exception ends the script
CallFactor ==
    /\ pc = "L116"
    /\ LET r == factor(A, D, C)
       IN  /\ D' = r.D
           /\ IF r.error = "none" THEN Goto("L137") ELSE Raise(r.error)
           /\ factored' = <<A, r.D, C>>
    /\ factorCalls' = factorCalls + 1
    /\ UNCHANGED <<cfg, u, mesh, A, C, B, j, it, solveCalls, built, assigned>>

\* line 137: for j in xrange( m )
\* xrange( m - 1 ): the last step left out
LoopBoundShort == m - 1
LoopBound == m
LoopHead ==
    /\ pc = "L137"
    /\ IF it < LoopBound
       THEN j' = it /\ it' = it + 1 /\ Goto("L139")
       ELSE UNCHANGED <<j, it>> /\ Goto("done")
    /\ UNCHANGED <<cfg, u, mesh, sys, B, hist>>

\* line 139: B = zeros( n - 1, float )
ZeroB ==
    /\ pc = "L139"
    /\ B' = zeros(n - 1)
    /\ Goto("L140")
    /\ UNCHANGED <<cfg, u, mesh, sys, j, it, hist>>

\* lines 140-141: explicit part of the right-hand side
\* the centre coefficient without its parentheses: 2*k*K*(1-c) - h2*u
ExplicitRHSUnparenthesised(uu, jj) ==
    VSub(VScale(RMul(RMul(k, K), RSub(One, c)),
                VAdd(PySlice(Column(uu, jj), 0, -2), PySlice(Column(uu, jj), 2, ALen(uu)))),
         [i \in DOMAIN PySlice(Column(uu, jj), 1, -1) |->
             RSub(RMul(RMul(RMul(RInt(2), k), K), RSub(One, c)),
                  RMul(h2, PySlice(Column(uu, jj), 1, -1)[i]))])
ExplicitRHS(uu, jj) ==
    VSub(VScale(RMul(RMul(k, K), RSub(One, c)),
                VAdd(PySlice(Column(uu, jj), 0, -2), PySlice(Column(uu, jj), 2, ALen(uu)))),
         VScale(RSub(RMul(RMul(RMul(RInt(2), k), K), RSub(One, c)), h2),
                PySlice(Column(uu, jj), 1, -1)))
AssembleB ==
    /\ pc = "L140"
    /\ B' = ExplicitRHS(u, j)
    /\ Goto("L143")
    /\ UNCHANGED <<cfg, u, mesh, sys, j, it, hist>>

\* Python index of an array: negative indices count from the end.
PyIndex(v, i) == IF i < 0 THEN ALen(v) + i ELSE i

\* line 143: B[0] = B[0] + k * K * c * u[0,j+1]
\* the left boundary value taken at the old time level j
InjectedLeftOld(BB, uu, jj) ==
    [BB EXCEPT ![PyIndex(BB, 0)] =
        RAdd(BB[PyIndex(BB, 0)], RMul(RMul(RMul(k, K), c), uu[0][jj]))]
InjectedLeft(BB, uu, jj) ==
    [BB EXCEPT ![PyIndex(BB, 0)] =
        RAdd(BB[PyIndex(BB, 0)], RMul(RMul(RMul(k, K), c), uu[0][jj + 1]))]
InjectLeft ==
    /\ pc = "L143"
    /\ B' = InjectedLeft(B, u, j)
    /\ Goto("L144")
    /\ UNCHANGED <<cfg, u, mesh, sys, j, it, hist>>

\* line 144: B[-1] = B[-1] + k * K * c * u[n,j+1]
InjectedRight(BB, uu, jj) ==
    [BB EXCEPT ![PyIndex(BB, -1)] =
        RAdd(BB[PyIndex(BB, -1)], RMul(RMul(RMul(k, K), c), uu[n][jj + 1]))]
InjectRight ==
    /\ pc = "L144"
    /\ B' = InjectedRight(B, u, j)
    /\ Goto("L146")
    /\ UNCHANGED <<cfg, u, mesh, sys, j, it, hist>>

\* the system factored again after every solve
SolveStepRefactor ==
    /\ pc = "L146"
    /\ LET r == solve(A, D, C, B)
       IN  IF r.error = "none"
           THEN /\ u' = SetInterior(u, j + 1, r.X)
                /\ assigned' = Count(assigned, 1..(n - 1), {j + 1})
                /\ Goto("L137")
           ELSE /\ UNCHANGED <<u, assigned>>
                /\ Raise(r.error)
    /\ solveCalls' = solveCalls + 1
    /\ D' = factor(A, D, C).D
    /\ factorCalls' = factorCalls + 1
    /\ UNCHANGED <<cfg, mesh, A, C, B, j, it, built, factored>>

\* line 146: u[1:-1,j+1] = tridiagonal.solve( A, D, C, B )
SolveStep ==
    /\ pc = "L146"
    /\ LET r == solve(A, D, C, B)
       IN  IF r.error = "none"
           THEN /\ u' = SetInterior(u, j + 1, r.X)
                /\ assigned' = Count(assigned, 1..(n - 1), {j + 1})
                /\ Goto("L137")
           ELSE /\ UNCHANGED <<u, assigned>>
                /\ Raise(r.error)
    /\ solveCalls' = solveCalls + 1
    /\ UNCHANGED <<cfg, mesh, sys, B, j, it, factorCalls, built, factored>>

Next ==
    \/ AllocU
    \/ SetInitial
    \/ SetLeft
    \/ SetRight
    \/ ComputeH
    \/ ComputeK
    \/ ComputeH2
    \/ BuildD
    \/ BuildA
    \/ BuildC
    \/ CallFactor
    \/ LoopHead
    \/ ZeroB
    \/ AssembleB
    \/ InjectLeft
    \/ InjectRight
    \/ SolveStep

Spec == Init /\ [][Next]_vars
\* The interpreter runs the script to its end: no statement waits.
FairSpec == Spec /\ WF_vars(Next)

TypeOK ==
    /\ pc \in {"L53", "L71", "L75", "L76", "L100", "L101", "L102", "L112", "L113",
               "L114", "L116", "L137", "L139", "L140", "L143", "L144", "L146",
               "done", "error"}
    /\ err \in {"none", "ZeroDivisionError", "ValueError", "SingularMatrix",
                "DimensionMismatch", "InvalidConfiguration"}
    /\ (pc = "error") = (err # "none")

\* ------------------------------------------------------------ vocabulary of the claims
Marching == pc \in {"L137", "L139", "L140", "L143", "L144", "L146"}
InStep == pc \in {"L139", "L140", "L143", "L144", "L146"}
\* Initialization (lines 53-116) has completed.
Initialized == Marching \/ pc = "done"
Interior == 1..(n - 1)
ZeroData == IsZero(f) /\ IsZero(a) /\ IsZero(b)
LessEq(r, s) == ~RLess(s, r)
Invalid ==
    \/ n < 2
    \/ m < 1
    \/ xmin >= xmax
    \/ tmin >= tmax
    \/ RLess(c, Zero)
    \/ RLess(One, c)
SolverError == err \in {"SingularMatrix", "DimensionMismatch", "InvalidConfiguration"}

\* C1: the system is built once and factored exactly once before the first
\* solve; every solve gets A, D, C exactly as factor left them, and nothing
\* rebuilds or writes them between the factor call and the last solve.
C1_FactorOnce ==
    /\ factorCalls <= 1
    /\ built <= 3
    /\ (solveCalls >= 1 \/ pc = "L146" => factorCalls = 1 /\ built = 3)
    /\ (Initialized => factorCalls = 1 /\ built = 3 /\ <<A, D, C>> = factored)
    \* a run on a valid configuration does not end before the factor call
    /\ (~Invalid /\ pc \in {"done", "error"} => factorCalls = 1 /\ built = 3)
C1_Witness ==
    /\ pc = "done"
    /\ solveCalls >= 2
    /\ n >= 3
    /\ D # DiagonalD

\* C2: once initialization is over, row 0 holds a(t_j) and row n holds b(t_j)
\* for every j in 0..m, the corner cells of column 0 included.
C2_BoundaryRows ==
    Initialized => \A jj \in 0..m : u[0][jj] = a[jj] /\ u[n][jj] = b[jj]
C2_Witness ==
    /\ pc = "done"
    /\ solveCalls >= 2
    /\ f[0] # a[0]
    /\ f[n] # b[0]

\* C3 as stated: once initialization is over, column 0 holds f(x_i) for every
\* i in 0..n, the two end indices included, whatever f, a and b are.
C3_Original ==
    Initialized => \A i \in 0..n : u[i][0] = f[i]
\* C3 amended: column 0 holds f(x_i) at the interior indices 1..n-1; the two
\* corner cells hold the boundary samples a(t_0) and b(t_0), which are
\* assigned after the initial condition.
C3_InitialColumn ==
    Initialized =>
        /\ \A i \in Interior : u[i][0] = f[i]
        /\ u[0][0] = a[0]
        /\ u[n][0] = b[0]
C3_Witness ==
    /\ pc = "done"
    /\ n >= 3
    /\ f[1] # f[2]
    /\ f[0] # a[0]
    /\ u[0][0] # f[0]

\* C4: the march runs the steps j = 0, 1, ..., m-1 in order; step j starts
\* only when column j is complete and columns after it are untouched, and it
\* writes column j+1; once started the march ends, after exactly m solve
\* calls, with every interior cell of columns 1..m assigned exactly once.
C4_Order ==
    /\ (Marching => it \in 0..m)
    /\ (pc = "L137" =>
            /\ solveCalls = it
            /\ \A i \in Interior, jj \in 1..m :
                   assigned[i][jj] = IF jj <= it THEN 1 ELSE 0)
    /\ (InStep =>
            /\ j = it - 1
            /\ solveCalls = j
            /\ \A i \in Interior, jj \in 1..m :
                   assigned[i][jj] = IF jj <= j THEN 1 ELSE 0)
    /\ (pc = "done" =>
            /\ it = m
            /\ solveCalls = m
            /\ \A i \in Interior, jj \in 1..m : assigned[i][jj] = 1)
C4_March ==
    /\ []C4_Order
    /\ ((pc = "L137" /\ it = 0 /\ m >= 1) ~> (pc = "done"))
C4_Witness ==
    /\ pc = "done"
    /\ m >= 2
    /\ n >= 3
    /\ solveCalls = m

\* C5 as stated: an invalid configuration is rejected with
\* InvalidConfiguration before anything is computed: no cell of the field is
\* written, no system is built, factor and solve are not called, and the run
\* never completes on the invalid values.
C5_InvalidRejected ==
    Invalid =>
        /\ \A i \in DOMAIN assigned : \A jj \in DOMAIN assigned[i] : assigned[i][jj] = 0
        /\ built = 0
        /\ factorCalls = 0
        /\ solveCalls = 0
        /\ pc # "done"
        /\ (pc = "error" => err = "InvalidConfiguration")

\* C6: an error raised by factor or by the solve of step j ends the run
\* there: no statement runs afterwards (no further solve, no retry), and no
\* interior cell of a later column has been written.
C6_AbortOnSolverError ==
    SolverError =>
        /\ pc = "error"
        /\ ~ENABLED Next
        /\ factorCalls = 1
        /\ \A i \in Interior, jj \in 1..m :
               (jj >= solveCalls /\ jj >= 1) => assigned[i][jj] = 0
C6_Witness ==
    /\ err = "SingularMatrix"
    /\ pc = "error"
    /\ factorCalls = 1
    /\ n >= 3
    /\ m >= 2

\* C7: with f, a and b identically zero and a valid configuration, the
\* right-hand side of every step is the zero vector and the field is zero
\* everywhere at termination.
C7_ZeroPreserved ==
    (ZeroData /\ ~Invalid) =>
        /\ (pc \in {"L143", "L144", "L146"} => ALen(B) = n - 1 /\ IsZero(B))
        /\ (pc = "done" => \A i \in 0..n, jj \in 0..m : u[i][jj] = Zero)
C7_Witness ==
    /\ ZeroData
    /\ ~Invalid
    /\ pc = "done"
    /\ solveCalls >= 2
    /\ n >= 3
    /\ c # One

\* C8: the system built has D of length n-1 with entries 2*k*K*c + h2 and A,
\* C of length n-2 with entries -k*K*c; for 0.5 <= c <= 1 with K, k, h > 0
\* every row is strictly diagonally dominant and factor meets no zero pivot.
Dominant == LessEq(Rat(1, 2), c) /\ LessEq(c, One) /\ RLess(Zero, K)
            /\ RLess(Zero, k) /\ RLess(Zero, h)
C8_System ==
    /\ (pc = "L116" =>
            /\ ALen(D) = n - 1 /\ ALen(A) = n - 2 /\ ALen(C) = n - 2
            /\ \A i \in DOMAIN D :
                   D[i] = RAdd(RMul(RMul(RMul(RInt(2), k), K), c), h2)
            /\ \A i \in DOMAIN A :
                   A[i] = RNeg(RMul(RMul(k, K), c)) /\ C[i] = A[i])
    /\ (pc = "L116" /\ Dominant =>
            \A i \in DOMAIN D :
                RLess(RAdd(RAbs(RMul(RMul(k, K), c)), RAbs(RMul(RMul(k, K), c))), D[i]))
    /\ (factorCalls >= 1 /\ Dominant =>
            /\ err = "none"
            /\ \A i \in DOMAIN D : D[i] # Zero)
C8_Witness ==
    /\ pc = "L137"
    /\ factorCalls = 1
    /\ Dominant
    /\ n >= 4
    /\ c = Rat(1, 2)

\* C9: the vector handed to solve at step j has length n-1 and entry i-1 is
\* k*K*(1-c)*(U[i-1][j] + U[i+1][j]) - (2*k*K*(1-c) - h2)*U[i][j], plus
\* k*K*c*U[0][j+1] for i = 1 and plus k*K*c*U[n][j+1] for i = n-1; in the
\* scenario n=4, m=1, K=1, c=1, f=0, a=0, b=1 on [0,1]x[0,1] it is [0, 0, 1].
Scenario ==
    /\ n = 4 /\ m = 1 /\ K = One /\ c = One
    /\ xmin = 0 /\ xmax = 1 /\ tmin = 0 /\ tmax = 1
    /\ IsZero(f) /\ IsZero(a) /\ \A jj \in DOMAIN b : b[jj] = One
ExpectedB(i) ==
    LET old == RSub(RMul(RMul(RMul(k, K), RSub(One, c)), RAdd(u[i - 1][j], u[i + 1][j])),
                    RMul(RSub(RMul(RMul(RMul(RInt(2), k), K), RSub(One, c)), h2), u[i][j]))
        left == IF i = 1 THEN RMul(RMul(RMul(k, K), c), u[0][j + 1]) ELSE Zero
        right == IF i = n - 1 THEN RMul(RMul(RMul(k, K), c), u[n][j + 1]) ELSE Zero
    IN  RAdd(RAdd(old, left), right)
C9_RightHandSide ==
    pc = "L146" =>
        /\ ALen(B) = n - 1
        /\ \A i \in Interior : B[i - 1] = ExpectedB(i)
        /\ (Scenario => B = (0 :> Zero @@ 1 :> Zero @@ 2 :> One))
C9_Witness ==
    /\ pc = "L146"
    /\ Scenario
    /\ B = (0 :> Zero @@ 1 :> Zero @@ 2 :> One)

\* C10: a step writes only the interior cells of column j+1, with the vector
\* solve returns; assembling B and injecting the boundary terms write no cell
\* of U, and the march leaves A, D, C and h, k, h2 as they are.
C10_StepFrame ==
    [][ /\ (pc \in {"L137", "L139", "L140", "L143", "L144"} => u' = u)
        /\ (pc = "L146" =>
                \A i \in 0..n, jj \in 0..m :
                    (i \in Interior /\ jj = j + 1) \/ u'[i][jj] = u[i][jj])
        /\ (pc = "L146" /\ pc' = "L137" =>
                \A i \in Interior : u'[i][j + 1] = solve(A, D, C, B).X[i - 1])
        /\ (Marching => sys' = sys /\ mesh' = mesh) ]_vars
C10_Witness ==
    /\ pc = "L137"
    /\ solveCalls >= 2
    /\ n >= 3
    /\ \E i \in Interior : u[i][2] # Zero /\ u[i][2] # u[i][1]
====
